---------------------------- MODULE Spec2Model ----------------------------
(***************************************************************************)
(* Model of the chat intake engine of the blood-request back end           *)
(* (services/aiService.ts): the in-memory session table userSessions, the  *)
(* message handler generateAIResponse, the dialogue state machine          *)
(* processBloodRequestSession, its extractors and validators, and the      *)
(* asynchronous call to the persistence collaborator BloodRequest.create.  *)
(*                                                                         *)
(* Strings are sequences of one-character strings, so that substring       *)
(* tests, trimming, regular expressions, parseInt and date formatting are  *)
(* computed as the code computes them.                                     *)
(***************************************************************************)
EXTENDS Integers, Sequences, FiniteSets, TLC

(***************************************************************************)
(* Characters and JavaScript string primitives                             *)
(***************************************************************************)
UpperSeq == <<"A", "B", "C", "D", "E", "F", "G", "H", "I", "J", "K", "L", "M",
              "N", "O", "P", "Q", "R", "S", "T", "U", "V", "W", "X", "Y", "Z">>

LowerSeq == <<"a", "b", "c", "d", "e", "f", "g", "h", "i", "j", "k", "l", "m",
              "n", "o", "p", "q", "r", "s", "t", "u", "v", "w", "x", "y", "z">>

DigitSeq == <<"0", "1", "2", "3", "4", "5", "6", "7", "8", "9">>

UpperChars == {UpperSeq[i] : i \in 1..26}

LowerChars == {LowerSeq[i] : i \in 1..26}

LetterChars == UpperChars \cup LowerChars

DigitChars == {DigitSeq[i] : i \in 1..10}

\* \s of the regular expressions and the characters String.prototype.trim removes
WhiteSpace == {" ", "\t", "\n"}

LowerChar(c) == IF c \in UpperChars
                THEN LowerSeq[CHOOSE i \in 1..26 : UpperSeq[i] = c]
                ELSE c

UpperChar(c) == IF c \in LowerChars
                THEN UpperSeq[CHOOSE i \in 1..26 : LowerSeq[i] = c]
                ELSE c

\* String.prototype.toLowerCase / toUpperCase
toLowerCase(s) == [i \in 1..Len(s) |-> LowerChar(s[i])]

toUpperCase(s) == [i \in 1..Len(s) |-> UpperChar(s[i])]

\* String.prototype.includes
includes(s, p) == \E i \in 0..(Len(s) - Len(p)) : SubSeq(s, i + 1, i + Len(p)) = p

\* String.prototype.trim
trim(s) ==
  LET keep == {i \in 1..Len(s) : s[i] \notin WhiteSpace}
      lo == CHOOSE i \in keep : \A j \in keep : i <= j
      hi == CHOOSE i \in keep : \A j \in keep : j <= i
  IN  IF keep = {} THEN <<>> ELSE SubSeq(s, lo, hi)

\* String.prototype.split(sep) for a one-character separator
RECURSIVE split(_, _)
split(s, sep) ==
  LET at == {i \in 1..Len(s) : s[i] = sep}
      first == CHOOSE i \in at : \A j \in at : i <= j
  IN  IF at = {} THEN <<s>>
      ELSE <<SubSeq(s, 1, first - 1)>> \o split(SubSeq(s, first + 1, Len(s)), sep)

DigitValue(c) == (CHOOSE i \in 1..10 : DigitSeq[i] = c) - 1

RECURSIVE DigitsValue(_)
DigitsValue(ds) ==
  IF ds = <<>> THEN 0
  ELSE 10 * DigitsValue(SubSeq(ds, 1, Len(ds) - 1)) + DigitValue(ds[Len(ds)])

\* the longest prefix of s made of digits
RECURSIVE DigitPrefix(_)
DigitPrefix(s) ==
  IF s # <<>> /\ Head(s) \in DigitChars THEN <<Head(s)>> \o DigitPrefix(Tail(s))
  ELSE <<>>

\* the value JavaScript calls NaN
NaN == -1000000

StripLeft(s) ==
  LET keep == {i \in 1..Len(s) : s[i] \notin WhiteSpace}
      lo == CHOOSE i \in keep : \A j \in keep : i <= j
  IN  IF keep = {} THEN <<>> ELSE SubSeq(s, lo, Len(s))

\* parseInt(s): leading white space, an optional sign, then the digits that
\* follow; NaN when there is no digit
parseInt(s) ==
  LET t == StripLeft(s)
      neg == t # <<>> /\ Head(t) = "-"
      u == IF t # <<>> /\ Head(t) \in {"-", "+"} THEN Tail(t) ELSE t
      ds == DigitPrefix(u)
  IN  IF ds = <<>> THEN NaN
      ELSE IF neg THEN 0 - DigitsValue(ds) ELSE DigitsValue(ds)

\* parseFloat(s) in tenths, rounded down, with the sign of whether hundredths
\* and below are non-zero: <<tenths, more>>; NaN when there is no number.
\* (Enough to compare a decimal against the integers 7 and 20.)
parseFloatTenths(s) ==
  LET t == StripLeft(s)
      neg == t # <<>> /\ Head(t) = "-"
      u == IF t # <<>> /\ Head(t) \in {"-", "+"} THEN Tail(t) ELSE t
      ip == DigitPrefix(u)
      rest == SubSeq(u, Len(ip) + 1, Len(u))
      fp == IF rest # <<>> /\ Head(rest) = "." THEN DigitPrefix(Tail(rest)) ELSE <<>>
      tenths == 10 * DigitsValue(ip) + (IF fp = <<>> THEN 0 ELSE DigitValue(fp[1]))
      more == \E i \in 2..Len(fp) : fp[i] # "0"
  IN  IF ip = <<>> /\ fp = <<>> THEN <<NaN, FALSE>>
      ELSE IF neg THEN <<0 - tenths, more>> ELSE <<tenths, more>>

\* Number.prototype.toString for a natural number
RECURSIVE toString(_)
toString(n) ==
  IF n < 10 THEN <<DigitSeq[n + 1]>>
  ELSE toString(n \div 10) \o <<DigitSeq[(n % 10) + 1]>>

\* String.prototype.padStart(2, '0')
padStart2(s) == IF Len(s) >= 2 THEN s ELSE IF Len(s) = 1 THEN <<"0">> \o s ELSE <<"0", "0">>

(***************************************************************************)
(* Regular expressions: a backtracking matcher with JavaScript's           *)
(* priorities.  Match returns the ways r matches s from position i, most   *)
(* preferred first, each as the position after the match and the captures. *)
(***************************************************************************)
RxChr(cs) == [t |-> "chr", cs |-> cs]

RxCat(a, b) == [t |-> "cat", a |-> a, b |-> b]

RxAlt(a, b) == [t |-> "alt", a |-> a, b |-> b]

\* a{lo,hi}; hi = -1 is unbounded; greedy or lazy
RxRep(a, lo, hi, greedy) == [t |-> "rep", a |-> a, lo |-> lo, hi |-> hi, greedy |-> greedy]

RxCap(n, a) == [t |-> "cap", n |-> n, a |-> a]

RxEnd == [t |-> "end"]

RxEps == [t |-> "eps"]

RxPlus(a) == RxRep(a, 1, -1, TRUE)

RxPlusLazy(a) == RxRep(a, 1, -1, FALSE)

RxOpt(a) == RxRep(a, 0, 1, TRUE)

\* a literal string, case-sensitive
RECURSIVE RxLit(_)
RxLit(s) == IF s = <<>> THEN RxEps
            ELSE IF Len(s) = 1 THEN RxChr({s[1]})
            ELSE RxCat(RxChr({s[1]}), RxLit(Tail(s)))

\* a literal string under the i flag
RECURSIVE RxLitI(_)
RxLitI(s) == IF s = <<>> THEN RxEps
             ELSE IF Len(s) = 1 THEN RxChr({LowerChar(s[1]), UpperChar(s[1])})
             ELSE RxCat(RxChr({LowerChar(s[1]), UpperChar(s[1])}), RxLitI(Tail(s)))

\* a1|a2|...|an, in that order
RECURSIVE RxAlts(_)
RxAlts(as) == IF Len(as) = 1 THEN as[1] ELSE RxAlt(as[1], RxAlts(Tail(as)))

RECURSIVE RxCats(_)
RxCats(as) == IF Len(as) = 1 THEN as[1] ELSE RxCat(as[1], RxCats(Tail(as)))

NoCaps == [n \in 1..3 |-> <<0, 0>>]

RECURSIVE Match(_, _, _, _), MatchAll(_, _, _), MatchRep(_, _, _, _, _)
Match(r, s, i, caps) ==
  CASE r.t = "chr" -> IF i <= Len(s) /\ s[i] \in r.cs
                      THEN <<[pos |-> i + 1, caps |-> caps]>> ELSE <<>>
    [] r.t = "eps" -> <<[pos |-> i, caps |-> caps]>>
    [] r.t = "end" -> IF i = Len(s) + 1 THEN <<[pos |-> i, caps |-> caps]>> ELSE <<>>
    [] r.t = "cat" -> MatchAll(r.b, s, Match(r.a, s, i, caps))
    [] r.t = "alt" -> Match(r.a, s, i, caps) \o Match(r.b, s, i, caps)
    [] r.t = "cap" -> LET inner == Match(r.a, s, i, caps)
                      IN  [k \in 1..Len(inner) |->
                             [pos |-> inner[k].pos,
                              caps |-> [inner[k].caps EXCEPT ![r.n] = <<i, inner[k].pos>>]]]
    [] r.t = "rep" -> MatchRep(r, s, i, caps, 0)

\* r matched from each of the results rs, in order
MatchAll(r, s, rs) ==
  IF rs = <<>> THEN <<>>
  ELSE Match(r, s, Head(rs).pos, Head(rs).caps) \o MatchAll(r, s, Tail(rs))

\* r.a repeated, count repetitions done so far
MatchRep(r, s, i, caps, count) ==
  LET stop == IF count >= r.lo THEN <<[pos |-> i, caps |-> caps]>> ELSE <<>>
      once == IF r.hi = -1 \/ count < r.hi
              THEN SelectSeq(Match(r.a, s, i, caps), LAMBDA m : m.pos > i) ELSE <<>>
      RECURSIVE more(_)
      more(ms) == IF ms = <<>> THEN <<>>
                  ELSE MatchRep(r, s, Head(ms).pos, Head(ms).caps, count + 1) \o more(Tail(ms))
  IN  IF r.greedy THEN more(once) \o stop ELSE stop \o more(once)

\* String.prototype.match(r) without the g flag: the leftmost match
RxSearch(r, s) ==
  LET starts == {i \in 1..(Len(s) + 1) : Match(r, s, i, NoCaps) # <<>>}
      first == CHOOSE i \in starts : \A j \in starts : i <= j
  IN  IF starts = {} THEN [found |-> FALSE, caps |-> NoCaps]
      ELSE [found |-> TRUE, caps |-> Head(Match(r, s, first, NoCaps)).caps]

\* the text of capture group n of a match m of s
Group(s, m, n) == SubSeq(s, m.caps[n][1], m.caps[n][2] - 1)

\* RegExp.prototype.test for an expression anchored with ^
RxTestAnchored(r, s) == Match(r, s, 1, NoCaps) # <<>>

(***************************************************************************)
(* Calendar: JavaScript Date arithmetic on local calendar days.  A day is  *)
(* counted from 01/01/0001; a date string is DD/MM/YYYY.                   *)
(***************************************************************************)
IsLeap(y) == (y % 4 = 0 /\ y % 100 # 0) \/ y % 400 = 0

DaysBeforeYear(y) == 365 * (y - 1) + ((y - 1) \div 4) - ((y - 1) \div 100) + ((y - 1) \div 400)

MonthLengths(y) == <<31, IF IsLeap(y) THEN 29 ELSE 28, 31, 30, 31, 30, 31, 31, 30, 31, 30, 31>>

RECURSIVE DaysBeforeMonth(_, _)
DaysBeforeMonth(y, m0) ==
  IF m0 = 0 THEN 0 ELSE DaysBeforeMonth(y, m0 - 1) + MonthLengths(y)[m0]

\* new Date(year, monthIndex, day) as a day count: out-of-range months and
\* days roll over, and a year in 0..99 means 1900 + year
DateOf(year, monthIndex, day) ==
  LET y0 == IF year >= 0 /\ year <= 99 THEN 1900 + year ELSE year
      y == y0 + (monthIndex \div 12)
      m0 == monthIndex % 12
  IN  DaysBeforeYear(y) + DaysBeforeMonth(y, m0) + (day - 1)

\* the years the clock of the model can show
ClockYears == 2025..2027

\* getFullYear, getMonth, getDate of a day count
getFullYear(n) == CHOOSE y \in ClockYears : DaysBeforeYear(y) <= n /\ n < DaysBeforeYear(y + 1)

getMonth(n) ==
  LET y == getFullYear(n)
  IN  CHOOSE m0 \in 0..11 :
        /\ DateOf(y, m0, 1) <= n
        /\ n < DateOf(y, m0, 1) + MonthLengths(y)[m0 + 1]

getDate(n) == n - DateOf(getFullYear(n), getMonth(n), 1) + 1

\* formatDate of extractDate, also written out at the commit
formatDate(n) ==
  padStart2(toString(getDate(n))) \o <<"/">> \o padStart2(toString(getMonth(n) + 1))
    \o <<"/">> \o toString(getFullYear(n))

MinutesPerDay == 24 * 60

\* the calendar day of the clock at its start, 31/01/2026
StartDay == DateOf(2026, 0, 31)

\* the calendar day shown by a clock reading (minutes since the start day began)
DayOf(t) == StartDay + (t \div MinutesPerDay)

(***************************************************************************)
(* Validators                                                              *)
(***************************************************************************)
\* validateBloodBags
validateBloodBags(bags) ==
  LET numBags == parseInt(bags)
  IN  numBags # NaN /\ numBags >= 1 /\ numBags <= 10

\* a validator that turns the upper limit itself down
validateHemoglobinBelowTwenty(level) ==
  LET h == parseFloatTenths(level)
  IN  /\ h[1] # NaN
      /\ h[1] >= 70
      /\ h[1] < 200

\* validateHemoglobin: 7 <= parseFloat(level) <= 20
validateHemoglobin(level) ==
  LET h == parseFloatTenths(level)
  IN  /\ h[1] # NaN
      /\ h[1] >= 70
      /\ (h[1] < 200 \/ (h[1] = 200 /\ ~h[2]))

\* validateDate, evaluated on calendar day today
validateDate(dateStr, today) ==
  LET parts == split(dateStr, "/")
      day == parseInt(parts[1])
      month == parseInt(parts[2])
      year == parseInt(parts[3])
      inputDate == DateOf(year, month - 1, day)
  IN  /\ Len(parts) = 3
      /\ day # NaN /\ month # NaN /\ year # NaN
      /\ inputDate >= today
      /\ inputDate <= today + 30

RxDigit == RxChr(DigitChars)

RxMinutes == RxCat(RxChr({"0", "1", "2", "3", "4", "5"}), RxDigit)

\* /^([01]?[0-9]|2[0-3]):([0-5][0-9])$/
militaryTimeRegex ==
  RxCats(<<RxAlt(RxCat(RxOpt(RxChr({"0", "1"})), RxDigit),
                 RxCat(RxChr({"2"}), RxChr({"0", "1", "2", "3"}))),
           RxChr({":"}), RxMinutes, RxEnd>>)

\* /^(1[0-2]|0?[1-9]):([0-5][0-9])\s?(AM|PM|am|pm)$/
twelveHourRegex ==
  RxCats(<<RxAlt(RxCat(RxChr({"1"}), RxChr({"0", "1", "2"})),
                 RxCat(RxOpt(RxChr({"0"})), RxChr(DigitChars \ {"0"}))),
           RxChr({":"}), RxMinutes, RxOpt(RxChr(WhiteSpace)),
           RxAlts(<<RxLit(<<"A", "M">>), RxLit(<<"P", "M">>),
                    RxLit(<<"a", "m">>), RxLit(<<"p", "m">>)>>),
           RxEnd>>)

\* validateTime
validateTime(timeStr) ==
  RxTestAnchored(militaryTimeRegex, timeStr) \/ RxTestAnchored(twelveHourRegex, timeStr)

(***************************************************************************)
(* Extractors.  An extractor that finds nothing returns Null.              *)
(***************************************************************************)
\* null / undefined of a string-valued variable or field
Null == <<"undefined">>

bloodTypes == <<<<"A", "+">>, <<"A", "-">>, <<"B", "+">>, <<"B", "-">>, <<"A", "B", "+">>, <<"A", "B", "-">>, <<"O", "+">>, <<"O", "-">>>>

\* the verbose forms of extractBloodType, in the order of its if statements:
\* <<first synonym, second synonym, result>>
bloodTypeVariations ==
  <<<<<<"A", " ", "P", "O", "S", "I", "T", "I", "V", "E">>, <<"A", " ", "+", "V", "E">>, <<"A", "+">>>>,
    <<<<"A", " ", "N", "E", "G", "A", "T", "I", "V", "E">>, <<"A", " ", "-", "V", "E">>, <<"A", "-">>>>,
    <<<<"B", " ", "P", "O", "S", "I", "T", "I", "V", "E">>, <<"B", " ", "+", "V", "E">>, <<"B", "+">>>>,
    <<<<"B", " ", "N", "E", "G", "A", "T", "I", "V", "E">>, <<"B", " ", "-", "V", "E">>, <<"B", "-">>>>,
    <<<<"A", "B", " ", "P", "O", "S", "I", "T", "I", "V", "E">>, <<"A", "B", " ", "+", "V", "E">>, <<"A", "B", "+">>>>,
    <<<<"A", "B", " ", "N", "E", "G", "A", "T", "I", "V", "E">>, <<"A", "B", " ", "-", "V", "E">>, <<"A", "B", "-">>>>,
    <<<<"O", " ", "P", "O", "S", "I", "T", "I", "V", "E">>, <<"O", " ", "+", "V", "E">>, <<"O", "+">>>>,
    <<<<"O", " ", "N", "E", "G", "A", "T", "I", "V", "E">>, <<"O", " ", "-", "V", "E">>, <<"O", "-">>>>>>

\* extractBloodType: the first canonical token, in list order, that the
\* message contains; else the first verbose form, in statement order, that
\* the upper-cased message contains
extractBloodType(message) ==
  LET exact == {k \in 1..Len(bloodTypes) : includes(message, bloodTypes[k])}
      normalizedMessage == toUpperCase(message)
      verbose == {k \in 1..Len(bloodTypeVariations) :
                    \/ includes(normalizedMessage, bloodTypeVariations[k][1])
                    \/ includes(normalizedMessage, bloodTypeVariations[k][2])}
  IN  IF exact # {} THEN bloodTypes[CHOOSE k \in exact : \A j \in exact : k <= j]
      ELSE IF verbose # {}
           THEN bloodTypeVariations[CHOOSE k \in verbose : \A j \in verbose : k <= j][3]
           ELSE Null

\* /(\d{1,2})[\/\-](\d{1,2})[\/\-](\d{4})/
dateRegex ==
  RxCats(<<RxCap(1, RxRep(RxDigit, 1, 2, TRUE)), RxChr({"/", "-"}),
           RxCap(2, RxRep(RxDigit, 1, 2, TRUE)), RxChr({"/", "-"}),
           RxCap(3, RxRep(RxDigit, 4, 4, TRUE))>>)

\* extractDate, evaluated on calendar day today
extractDate(message, today) ==
  LET match == RxSearch(dateRegex, message)
  IN  IF includes(toLowerCase(message), <<"t", "o", "d", "a", "y">>) THEN formatDate(today)
      ELSE IF includes(toLowerCase(message), <<"t", "o", "m", "o", "r", "r", "o", "w">>) THEN formatDate(today + 1)
      ELSE IF match.found
           THEN padStart2(Group(message, match, 1)) \o <<"/">>
                  \o padStart2(Group(message, match, 2)) \o <<"/">>
                  \o Group(message, match, 3)
           ELSE Null

RxSpaces == RxPlus(RxChr(WhiteSpace))

\* /(?:at|in|for)\s+([A-Za-z\s]+(?:Hospital|Medical|Clinic))/i
hospitalRegex ==
  RxCats(<<RxAlts(<<RxLitI(<<"a", "t">>), RxLitI(<<"i", "n">>), RxLitI(<<"f", "o", "r">>)>>),
           RxSpaces,
           RxCap(1, RxCat(RxPlus(RxChr(LetterChars \cup WhiteSpace)),
                          RxAlts(<<RxLitI(<<"H", "o", "s", "p", "i", "t", "a", "l">>), RxLitI(<<"M", "e", "d", "i", "c", "a", "l">>),
                                   RxLitI(<<"C", "l", "i", "n", "i", "c">>)>>)))>>)

\* /(?:in|at)\s+([A-Za-z\s,]+?)(?:\.|\,|for|blood|\s+need|\s+hospital|$)/i
locationRegex ==
  RxCats(<<RxAlts(<<RxLitI(<<"i", "n">>), RxLitI(<<"a", "t">>)>>),
           RxSpaces,
           RxCap(1, RxPlusLazy(RxChr(LetterChars \cup WhiteSpace \cup {","}))),
           RxAlts(<<RxChr({"."}), RxChr({","}), RxLitI(<<"f", "o", "r">>), RxLitI(<<"b", "l", "o", "o", "d">>),
                    RxCat(RxSpaces, RxLitI(<<"n", "e", "e", "d">>)),
                    RxCat(RxSpaces, RxLitI(<<"h", "o", "s", "p", "i", "t", "a", "l">>)), RxEnd>>)>>)

\* new RegExp(`${keyword}\\s+([A-Za-z\\s]+?)(?:\\.|\,|\\s+|$)`, 'i')
keywordRegex(keyword) ==
  RxCats(<<RxLitI(keyword),
           RxSpaces,
           RxCap(1, RxPlusLazy(RxChr(LetterChars \cup WhiteSpace))),
           RxAlts(<<RxChr({"."}), RxChr({","}), RxSpaces, RxEnd>>)>>)

zoneKeywords == <<<<"z", "o", "n", "e">>, <<"a", "r", "e", "a">>, <<"d", "i", "s", "t", "r", "i", "c", "t">>>>

problemKeywords == <<<<"p", "r", "o", "b", "l", "e", "m">>, <<"c", "o", "n", "d", "i", "t", "i", "o", "n">>, <<"d", "i", "a", "g", "n", "o", "s", "i", "s">>, <<"p", "a", "t", "i", "e", "n", "t", " ", "h", "a", "s">>, <<"s", "u", "f", "f", "e", "r", "i", "n", "g", " ", "f", "r", "o", "m">>>>

\* the for loops over zoneKeywords and problemKeywords: the trimmed capture of
\* the first keyword, in list order, whose expression matches
keywordCapture(message, keywords) ==
  LET hits == {k \in 1..Len(keywords) : RxSearch(keywordRegex(keywords[k]), message).found}
      k0 == CHOOSE k \in hits : \A j \in hits : k <= j
  IN  IF hits = {} THEN Null
      ELSE trim(Group(message, RxSearch(keywordRegex(keywords[k0]), message), 1))

\* /(\d+)\s+(?:bag|bags|unit|units)/i
bagBackfillRegex ==
  RxCats(<<RxCap(1, RxPlus(RxDigit)), RxSpaces,
           RxAlts(<<RxLitI(<<"b", "a", "g">>), RxLitI(<<"b", "a", "g", "s">>), RxLitI(<<"u", "n", "i", "t">>), RxLitI(<<"u", "n", "i", "t", "s">>)>>)>>)

\* extractAdditionalInfo
extractAdditionalInfo(message) ==
  LET hospitalMatch == RxSearch(hospitalRegex, message)
      locationMatch == RxSearch(locationRegex, message)
      bagMatch == RxSearch(bagBackfillRegex, message)
  IN  [bloodType |-> extractBloodType(message),
       hospital |-> IF hospitalMatch.found THEN trim(Group(message, hospitalMatch, 1)) ELSE Null,
       location |-> IF locationMatch.found THEN trim(Group(message, locationMatch, 1)) ELSE Null,
       zone |-> keywordCapture(message, zoneKeywords),
       patientProblem |-> keywordCapture(message, problemKeywords),
       bagNeeded |-> IF bagMatch.found THEN Group(message, bagMatch, 1) ELSE Null]

\* /(\d+)/ of the bagNeeded stage
bagRegex == RxCap(1, RxPlus(RxDigit))

\* /(\d+(\.\d+)?)/ of the hemoglobinPoint stage
hemoglobinRegex ==
  RxCap(1, RxCat(RxPlus(RxDigit), RxOpt(RxCap(2, RxCat(RxChr({"."}), RxPlus(RxDigit))))))

(***************************************************************************)
(* Intent detection and the tests of the confirmation stage                *)
(***************************************************************************)
bloodRequestKeywords ==
  <<<<"c", "r", "e", "a", "t", "e", " ", "b", "l", "o", "o", "d", " ", "r", "e", "q", "u", "e", "s", "t">>, <<"n", "e", "e", "d", " ", "b", "l", "o", "o", "d", " ", "d", "o", "n", "a", "t", "i", "o", "n">>, <<"r", "e", "q", "u", "e", "s", "t", " ", "b", "l", "o", "o", "d", " ", "d", "o", "n", "a", "t", "i", "o", "n">>,
    <<"l", "o", "o", "k", "i", "n", "g", " ", "f", "o", "r", " ", "b", "l", "o", "o", "d", " ", "d", "o", "n", "o", "r">>, <<"n", "e", "e", "d", " ", "b", "l", "o", "o", "d", " ", "u", "r", "g", "e", "n", "t", "l", "y">>, <<"b", "l", "o", "o", "d", " ", "d", "o", "n", "a", "t", "i", "o", "n", " ", "r", "e", "q", "u", "e", "s", "t">>>>

\* the intent test without the lower-casing of the message
isBloodRequestIntentCaseSensitive(message) ==
  \E k \in 1..Len(bloodRequestKeywords) :
    includes(message, toLowerCase(bloodRequestKeywords[k]))

\* isBloodRequestIntent
isBloodRequestIntent(message) ==
  \E k \in 1..Len(bloodRequestKeywords) :
    includes(toLowerCase(message), toLowerCase(bloodRequestKeywords[k]))

\* the test of the first branch of case 'confirmation'
isAffirmative(message) ==
  \/ includes(toLowerCase(message), <<"y", "e", "s">>)
  \/ includes(toLowerCase(message), <<"c", "o", "r", "r", "e", "c", "t">>)
  \/ includes(toLowerCase(message), <<"r", "i", "g", "h", "t">>)

\* the test of the else-if branch of case 'confirmation'
isNegative(message) ==
  \/ includes(toLowerCase(message), <<"n", "o">>)
  \/ includes(toLowerCase(message), <<"w", "r", "o", "n", "g">>)
  \/ includes(toLowerCase(message), <<"i", "n", "c", "o", "r", "r", "e", "c", "t">>)

(***************************************************************************)
(* The messages the modelled requester sends                               *)
(***************************************************************************)
MsgCreateBloodRequest == <<"c", "r", "e", "a", "t", "e", " ", "b", "l", "o", "o", "d", " ", "r", "e", "q", "u", "e", "s", "t">>

MsgNeedBloodUrgentlyCaps == <<"I", " ", "N", "E", "E", "D", " ", "B", "L", "O", "O", "D", " ", "U", "R", "G", "E", "N", "T", "L", "Y", "!">>

MsgBlood == <<"b", "l", "o", "o", "d">>

MsgHello == <<"h", "e", "l", "l", "o", ",", " ", "I", " ", "h", "a", "v", "e", " ", "a", " ", "q", "u", "e", "s", "t", "i", "o", "n", " ", "a", "b", "o", "u", "t", " ", "b", "l", "o", "o", "d">>

MsgAPlus == <<"A", "+">>

MsgABPlus == <<"A", "B", "+">>

MsgOk == <<"o", "k">>

MsgVerbose == <<"n", "e", "e", "d", " ", "A", "+", " ", "b", "l", "o", "o", "d", " ", "a", "t", " ", "C", "i", "t", "y", " ", "H", "o", "s", "p", "i", "t", "a", "l", " ", "3", " ", "b", "a", "g", "s">>

MsgCityHospital == <<"C", "i", "t", "y", " ", "H", "o", "s", "p", "i", "t", "a", "l">>

MsgSpaces == <<" ", " ", " ", " ">>

MsgRoad == <<"R", "o", "a", "d", " ", "7">>

MsgDhanmondi == <<"D", "h", "a", "n", "m", "o", "n", "d", "i">>

MsgDengue == <<"d", "e", "n", "g", "u", "e">>

MsgThreeBags == <<"w", "e", " ", "n", "e", "e", "d", " ", "3", " ", "b", "a", "g", "s">>

MsgEleven == <<"1", "1">>

MsgElevenBags == <<"1", "1", " ", "b", "a", "g", "s">>

MsgZero == <<"0">>

MsgToday == <<"t", "o", "d", "a", "y">>

MsgTomorrow == <<"t", "o", "m", "o", "r", "r", "o", "w">>

MsgYesterdayDate == <<"3", "0", "/", "0", "1", "/", "2", "0", "2", "6">>

MsgInThirtyDays == <<"0", "2", "/", "0", "3", "/", "2", "0", "2", "6">>

MsgInThirtyOneDays == <<"0", "3", "/", "0", "3", "/", "2", "0", "2", "6">>

MsgFebruaryThirty == <<"3", "0", "/", "0", "2", "/", "2", "0", "2", "6">>

MsgShortDate == <<"1", "-", "2", "-", "2", "0", "2", "6">>

MsgHalfPastTwo == <<"1", "4", ":", "3", "0">>

MsgBadTime == <<"2", "5", ":", "0", "0">>

MsgSkip == <<"s", "k", "i", "p">>

MsgHemoglobin == <<"1", "2", ".", "5">>

MsgHemoglobinHigh == <<"2", "5">>

MsgUnknownCaps == <<"U", "N", "K", "N", "O", "W", "N">>

MsgSeven == <<"7">>

MsgTwenty == <<"2", "0", ".", "0">>

MsgOverTwenty == <<"2", "0", ".", "0", "1">>

MsgBelowSeven == <<"h", "b", " ", "6", ".", "9">>

MsgUrgent == <<"u", "r", "g", "e", "n", "t", " ", "p", "l", "e", "a", "s", "e">>

MsgYes == <<"Y", "e", "s">>

MsgYesAtCityHospital == <<"y", "e", "s", " ", "a", "t", " ", "C", "i", "t", "y", " ", "H", "o", "s", "p", "i", "t", "a", "l">>

MsgNoWrong == <<"N", "o", ",", " ", "t", "h", "a", "t", "'", "s", " ", "w", "r", "o", "n", "g">>

MsgIncorrect == <<"i", "n", "c", "o", "r", "r", "e", "c", "t">>

MsgNotRight == <<"n", "o", ",", " ", "t", "h", "a", "t", " ", "i", "s", " ", "n", "o", "t", " ", "r", "i", "g", "h", "t">>

MsgAtCityHospital == <<"a", "t", " ", "C", "i", "t", "y", " ", "H", "o", "s", "p", "i", "t", "a", "l">>

MsgLookingForBloodDonor == <<"l", "o", "o", "k", "i", "n", "g", " ", "f", "o", "r", " ", "b", "l", "o", "o", "d", " ", "d", "o", "n", "o", "r">>

\* the stages of BloodRequestSession, in dialogue order (bloodType is declared
\* between initial and hospital but is no step of the dialogue)
StageOrder == <<"initial", "hospital", "location", "zone", "patientProblem", "bagNeeded",
                "date", "time", "hemoglobinPoint", "additionalInfo", "confirmation">>

Stages == {StageOrder[i] : i \in 1..Len(StageOrder)} \cup {"bloodType"}

\* every message of the model, whatever the trigger phrase it carries
TriggerMessages ==
  {bloodRequestKeywords[k] : k \in 1..Len(bloodRequestKeywords)}
    \cup {toUpperCase(bloodRequestKeywords[k]) : k \in 1..Len(bloodRequestKeywords)}
    \cup {MsgNeedBloodUrgentlyCaps}

\* what the requester sends when the engine holds no live session for them
Openers == TriggerMessages \cup {MsgBlood, MsgHello, MsgYes}

\* what the requester sends at each stage of a live session: answers the stage
\* accepts, answers it rejects, and messages meant for another stage
Answers(stage) ==
  CASE stage = "initial" ->
         {MsgAPlus, MsgABPlus, MsgVerbose, MsgOk, MsgCreateBloodRequest, MsgAtCityHospital}
    [] stage = "bloodType" -> {MsgAPlus, MsgOk}
    [] stage = "hospital" -> {MsgCityHospital, MsgSpaces, MsgOk, MsgCreateBloodRequest}
    [] stage = "location" -> {MsgRoad, MsgOk}
    [] stage = "zone" -> {MsgDhanmondi, MsgSpaces, MsgOk}
    [] stage = "patientProblem" -> {MsgDengue, MsgOk}
    [] stage = "bagNeeded" -> {MsgThreeBags, MsgEleven, MsgElevenBags, MsgZero, MsgOk}
    [] stage = "date" -> {MsgToday, MsgTomorrow, MsgYesterdayDate, MsgOk}
    [] stage = "time" -> {MsgHalfPastTwo, MsgBadTime}
    [] stage = "hemoglobinPoint" -> {MsgSkip, MsgHemoglobin, MsgHemoglobinHigh, MsgOk}
    [] stage = "additionalInfo" -> {MsgSkip, MsgUrgent}
    [] stage = "confirmation" ->
         {MsgYes, MsgYesAtCityHospital, MsgNoWrong, MsgIncorrect, MsgNotRight, MsgOk,
          MsgAtCityHospital, MsgCreateBloodRequest, MsgLookingForBloodDonor}

\* what a requester sends who answers every stage with one accepted value,
\* except at the stages date and hemoglobinPoint, where the limits of the
\* validators are tried
AnswersStages(stage) ==
  CASE stage = "initial" -> {MsgAPlus}
    [] stage = "bloodType" -> {MsgAPlus}
    [] stage = "hospital" -> {MsgCityHospital}
    [] stage = "location" -> {MsgRoad}
    [] stage = "zone" -> {MsgDhanmondi}
    [] stage = "patientProblem" -> {MsgDengue}
    [] stage = "bagNeeded" -> {MsgThreeBags}
    [] stage = "date" ->
         {MsgToday, MsgTomorrow, MsgYesterdayDate, MsgInThirtyDays, MsgInThirtyOneDays,
          MsgFebruaryThirty, MsgShortDate, MsgOk}
    [] stage = "time" -> {MsgHalfPastTwo}
    [] stage = "hemoglobinPoint" ->
         {MsgSkip, MsgUnknownCaps, MsgHemoglobin, MsgHemoglobinHigh, MsgSeven, MsgTwenty,
          MsgOverTwenty, MsgBelowSeven, MsgOk}
    [] stage = "additionalInfo" -> {MsgSkip}
    [] stage = "confirmation" -> {MsgYes}

\* what a requester sends who gives every stage an answer it accepts, and an
\* affirmative reply at confirmation
AnswersAccepted(stage) ==
  CASE stage = "initial" -> {MsgAPlus}
    [] stage = "bloodType" -> {MsgAPlus}
    [] stage = "hospital" -> {MsgCityHospital, MsgSpaces}
    [] stage = "location" -> {MsgRoad}
    [] stage = "zone" -> {MsgDhanmondi}
    [] stage = "patientProblem" -> {MsgDengue}
    [] stage = "bagNeeded" -> {MsgThreeBags}
    [] stage = "date" -> {MsgToday, MsgTomorrow}
    [] stage = "time" -> {MsgHalfPastTwo}
    [] stage = "hemoglobinPoint" -> {MsgSkip, MsgHemoglobin}
    [] stage = "additionalInfo" -> {MsgSkip, MsgUrgent}
    [] stage = "confirmation" -> {MsgYes}

Messages ==
  Openers \cup UNION {Answers(st) : st \in Stages} \cup UNION {AnswersStages(st) : st \in Stages}
    \cup UNION {AnswersAccepted(st) : st \in Stages}

(***************************************************************************)
(* Bounds of the model                                                     *)
(***************************************************************************)
\* the clock starts at 23:30 of the start day
StartTime == 23 * 60 + 30

\* how far the clock runs
MaxElapsed == 31

\* how many handlers may be suspended at the persistence call at once
MaxPending == 2

\* how many messages are handled after the persistence collaborator was first called
MaxAfterCall == 2

(***************************************************************************)
(* What the extractors and tests yield on each message of the model,       *)
(* computed once                                                           *)
(***************************************************************************)
\* the calendar days the clock of the model passes through
ClockDays == DayOf(StartTime)..DayOf(StartTime + MaxElapsed)

lowerOf == [m \in Messages |-> toLowerCase(m)]

trimOf == [m \in Messages |-> trim(m)]

intentOf == [m \in Messages |-> isBloodRequestIntent(m)]

affirmativeOf == [m \in Messages |-> isAffirmative(m)]

negativeOf == [m \in Messages |-> isNegative(m)]

extractedInfoOf == [m \in Messages |-> extractAdditionalInfo(m)]

bloodTypeOf == [m \in Messages |-> extractBloodType(m)]

bagMatchOf == [m \in Messages |-> RxSearch(bagRegex, m)]

hemoglobinMatchOf == [m \in Messages |-> RxSearch(hemoglobinRegex, m)]

validTimeOf == [m \in Messages |-> validateTime(m)]

dateValueOf == [m \in Messages |-> [d \in ClockDays |-> extractDate(m, d)]]

(***************************************************************************)
(* The session table and the dialogue state machine                        *)
(***************************************************************************)
Users == {"u1", "u2"}

\* userSessions[userId] of a requester without a session
NoSession == [stage |-> "none"]

\* { stage: 'initial', lastUpdated: new Date() }
NewSession(t) ==
  [stage |-> "initial", bloodType |-> Null, hospital |-> Null, location |-> Null,
   zone |-> Null, patientProblem |-> Null, bagNeeded |-> Null, date |-> Null,
   time |-> Null, hemoglobinPoint |-> Null, additionalInfo |-> Null, lastUpdated |-> t]

\* !value of an optional string: undefined or the empty string
Falsy(v) == v = Null \/ v = <<>>

\* the session timeout in minutes: 30 * 60 * 1000 ms
SessionTimeout == 30

\* an expiry that already takes effect at the timeout itself
isExpiredAtTimeout(session, t) == t - session.lastUpdated >= SessionTimeout

\* sessionAge > 30 * 60 * 1000, at clock reading t
isExpired(session, t) == t - session.lastUpdated > SessionTimeout

NotSpecified == <<"N", "o", "t", " ", "s", "p", "e", "c", "i", "f", "i", "e", "d">>

\* the opportunistic pass: a field is set from the message only while it is falsy
backfill(session, extractedInfo) ==
  LET pick(old, new) == IF ~Falsy(new) /\ Falsy(old) THEN new ELSE old
  IN  [session EXCEPT
         !.bloodType = pick(@, extractedInfo.bloodType),
         !.hospital = pick(@, extractedInfo.hospital),
         !.location = pick(@, extractedInfo.location),
         !.zone = pick(@, extractedInfo.zone),
         !.patientProblem = pick(@, extractedInfo.patientProblem),
         !.bagNeeded = pick(@, extractedInfo.bagNeeded)]

\* the result of one pass of the state machine: the session as it is left, the
\* reply, and the document handed to BloodRequest.create (NoDoc when none is)
NoDoc == [status |-> "none"]

Outcome(session, reply) == [session |-> session, reply |-> reply, doc |-> NoDoc]

\* case 'initial' (and the identical case 'bloodType')
stageBloodType(session, message, okReply, retryReply) ==
  LET bloodType == bloodTypeOf[message]
  IN  IF bloodType # Null
      THEN Outcome([session EXCEPT !.bloodType = bloodType, !.stage = "hospital"], okReply)
      ELSE Outcome(session, retryReply)

\* cases 'hospital', 'location', 'zone', 'patientProblem': free text longer than
\* minLength characters is stored trimmed
stageFreeText(session, message, field, minLength, nextStage, okReply, retryReply) ==
  IF Len(message) > minLength
  THEN Outcome([session EXCEPT ![field] = trimOf[message], !.stage = nextStage], okReply)
  ELSE Outcome(session, retryReply)

\* case 'bagNeeded'
stageBagNeeded(session, message) ==
  LET bagMatch == bagMatchOf[message]
      bagValue == Group(message, bagMatch, 1)
  IN  IF bagMatch.found
      THEN IF validateBloodBags(bagValue)
           THEN Outcome([session EXCEPT !.bagNeeded = bagValue, !.stage = "date"], "ask_date")
           ELSE Outcome(session, "bags_unusual")
      ELSE Outcome(session, "bags_need_number")

\* a date stage that keeps the date it rejects
stageDateKeepsRejected(session, message, today) ==
  LET dateValue == dateValueOf[message][today]
  IN  IF dateValue # Null
      THEN IF validateDate(dateValue, today)
           THEN Outcome([session EXCEPT !.date = dateValue, !.stage = "time"], "ask_time")
           ELSE Outcome([session EXCEPT !.date = dateValue], "date_out_of_window")
      ELSE Outcome(session, "date_not_understood")

\* case 'date'
stageDate(session, message, today) ==
  LET dateValue == dateValueOf[message][today]
  IN  IF dateValue # Null
      THEN IF validateDate(dateValue, today)
           THEN Outcome([session EXCEPT !.date = dateValue, !.stage = "time"], "ask_time")
           ELSE Outcome(session, "date_out_of_window")
      ELSE Outcome(session, "date_not_understood")

\* case 'time'
stageTime(session, message) ==
  IF validTimeOf[message]
  THEN Outcome([session EXCEPT !.time = message, !.stage = "hemoglobinPoint"], "ask_hemoglobin")
  ELSE Outcome(session, "time_not_understood")

\* case 'hemoglobinPoint'
stageHemoglobin(session, message) ==
  LET hemoglobinMatch == hemoglobinMatchOf[message]
      hemoglobinValue == Group(message, hemoglobinMatch, 1)
  IN  IF lowerOf[message] = <<"s", "k", "i", "p">> \/ lowerOf[message] = <<"u", "n", "k", "n", "o", "w", "n">>
      THEN Outcome([session EXCEPT !.hemoglobinPoint = NotSpecified,
                                   !.stage = "additionalInfo"], "ask_additional_skipped")
      ELSE IF hemoglobinMatch.found
           THEN IF validateHemoglobin(hemoglobinValue)
                THEN Outcome([session EXCEPT !.hemoglobinPoint = hemoglobinValue,
                                             !.stage = "additionalInfo"], "ask_additional")
                ELSE Outcome(session, "hemoglobin_unusual")
           ELSE Outcome(session, "hemoglobin_not_understood")

\* case 'additionalInfo'
stageAdditionalInfo(session, message) ==
  Outcome([session EXCEPT
             !.additionalInfo = IF includes(lowerOf[message], <<"s", "k", "i", "p">>) THEN <<>>
                                ELSE trimOf[message],
             !.stage = "confirmation"],
          "summary")

\* the required-field test that opens the commit
missingRequired(session) ==
  \/ Falsy(session.bloodType) \/ Falsy(session.hospital) \/ Falsy(session.location)
  \/ Falsy(session.zone) \/ Falsy(session.patientProblem) \/ Falsy(session.bagNeeded)
  \/ Falsy(session.date) \/ Falsy(session.time)

\* the repairs without the one of the date
repairWithoutDate(session, today) ==
  [session EXCEPT
     !.bagNeeded = IF ~validateBloodBags(@) THEN <<"1">> ELSE @,
     !.hemoglobinPoint = IF ~Falsy(@) /\ @ # NotSpecified /\ ~validateHemoglobin(@)
                         THEN NotSpecified ELSE @]

\* the repairs made before the document is built
repair(session, today) ==
  [session EXCEPT
     !.bagNeeded = IF ~validateBloodBags(@) THEN <<"1">> ELSE @,
     !.hemoglobinPoint = IF ~Falsy(@) /\ @ # NotSpecified /\ ~validateHemoglobin(@)
                         THEN NotSpecified ELSE @,
     !.date = IF ~validateDate(@, today) THEN formatDate(today) ELSE @]

\* the argument of BloodRequest.create
document(session, userId) ==
  [bloodType |-> session.bloodType,
   hospital |-> session.hospital,
   location |-> session.location,
   hemoglobinPoint |-> IF Falsy(session.hemoglobinPoint) THEN NotSpecified
                       ELSE session.hemoglobinPoint,
   patientProblem |-> session.patientProblem,
   bagNeeded |-> session.bagNeeded,
   zone |-> session.zone,
   date |-> session.date,
   time |-> session.time,
   additionalInfo |-> IF Falsy(session.additionalInfo) THEN <<>> ELSE session.additionalInfo,
   requester |-> userId,
   status |-> "active",
   viewCount |-> 0]

\* what the BloodRequest schema demands of the fields the commit supplies:
\* a blood type of the enum, and the required strings present and non-empty
schemaAcceptsGiven(doc) ==
  /\ \E k \in 1..Len(bloodTypes) : doc.bloodType = bloodTypes[k]
  /\ \A f \in {"hospital", "location"} : doc[f] # Null /\ trim(doc[f]) # <<>>
  /\ \A f \in {"patientProblem", "bagNeeded", "zone", "date", "time"} :
       doc[f] # Null /\ doc[f] # <<>>
  /\ doc.status \in {"active", "accepted", "completed", "cancelled"}

\* the replies with which a collecting stage turns a message down
rePrompts ==
  {"need_blood_type", "still_need_blood_type", "need_hospital", "need_location", "need_zone",
   "need_problem", "bags_unusual", "bags_need_number", "date_out_of_window",
   "date_not_understood", "time_not_understood", "hemoglobin_unusual",
   "hemoglobin_not_understood"}

\* the replies that put the question "What blood type do you need?"
asksBloodType == {"ask_blood_type", "missing_start_over", "start_over"}

\* a reset that goes to the stage bloodType
resetSessionToBloodType(session) ==
  [session EXCEPT
     !.stage = "bloodType", !.bloodType = Null, !.hospital = Null, !.location = Null,
     !.zone = Null, !.patientProblem = Null, !.bagNeeded = Null, !.date = Null,
     !.time = Null, !.hemoglobinPoint = Null, !.additionalInfo = Null]

\* a reset that leaves the additional information in place
resetSessionKeepsInfo(session) ==
  [session EXCEPT
     !.stage = "initial", !.bloodType = Null, !.hospital = Null, !.location = Null,
     !.zone = Null, !.patientProblem = Null, !.bagNeeded = Null, !.date = Null,
     !.time = Null, !.hemoglobinPoint = Null]

\* all ten collected fields set back to undefined, stage initial
resetSession(session) ==
  [session EXCEPT
     !.stage = "initial", !.bloodType = Null, !.hospital = Null, !.location = Null,
     !.zone = Null, !.patientProblem = Null, !.bagNeeded = Null, !.date = Null,
     !.time = Null, !.hemoglobinPoint = Null, !.additionalInfo = Null]

\* the call of BloodRequest.create with the repaired session
commit(session, userId) ==
  [session |-> session, reply |-> "none_yet", doc |-> document(session, userId)]

\* a confirmation stage that clears the session when a required field is missing
stageConfirmationClearsOnMissing(session, message, userId, today) ==
  IF affirmativeOf[message]
  THEN IF missingRequired(session)
       THEN Outcome(resetSession(session), "missing_start_over")
       ELSE commit(repair(session, today), userId)
  ELSE IF negativeOf[message]
       THEN Outcome(resetSession(session), "start_over")
       ELSE Outcome(session, "confirm_yes_or_no")

\* a confirmation stage that hands an unclear reply to the fallback responder
stageConfirmationAsksFallback(session, message, userId, today) ==
  IF affirmativeOf[message]
  THEN IF missingRequired(session)
       THEN Outcome([session EXCEPT !.stage = "initial"], "missing_start_over")
       ELSE commit(repair(session, today), userId)
  ELSE IF negativeOf[message]
       THEN Outcome(resetSession(session), "start_over")
       ELSE Outcome(session, "fallback_answer")

\* case 'confirmation', up to the await of BloodRequest.create
stageConfirmation(session, message, userId, today) ==
  IF affirmativeOf[message]
  THEN IF missingRequired(session)
       THEN Outcome([session EXCEPT !.stage = "initial"], "missing_start_over")
       ELSE commit(repair(session, today), userId)
  ELSE IF negativeOf[message]
       THEN Outcome(resetSession(session), "start_over")
       ELSE Outcome(session, "confirm_yes_or_no")

\* the switch on session.stage of processBloodRequestSession
stageSwitch(message, s, userId, t) ==
      CASE s.stage = "initial" ->
             stageBloodType(s, message, "ask_hospital", "need_blood_type")
        [] s.stage = "bloodType" ->
             stageBloodType(s, message, "ask_hospital_thanks", "still_need_blood_type")
        [] s.stage = "hospital" ->
             stageFreeText(s, message, "hospital", 3, "location", "ask_location", "need_hospital")
        [] s.stage = "location" ->
             stageFreeText(s, message, "location", 3, "zone", "ask_zone", "need_location")
        [] s.stage = "zone" ->
             stageFreeText(s, message, "zone", 2, "patientProblem", "ask_problem", "need_zone")
        [] s.stage = "patientProblem" ->
             stageFreeText(s, message, "patientProblem", 3, "bagNeeded", "ask_bags",
                           "need_problem")
        [] s.stage = "bagNeeded" -> stageBagNeeded(s, message)
        [] s.stage = "date" -> stageDate(s, message, DayOf(t))
        [] s.stage = "time" -> stageTime(s, message)
        [] s.stage = "hemoglobinPoint" -> stageHemoglobin(s, message)
        [] s.stage = "additionalInfo" -> stageAdditionalInfo(s, message)
        [] s.stage = "confirmation" -> stageConfirmation(s, message, userId, DayOf(t))

\* a state machine that leaves the time stamp of the session as it is
processBloodRequestSessionKeepsTime(message, session, userId, t) ==
  stageSwitch(message, backfill(session, extractedInfoOf[message]), userId, t)

\* processBloodRequestSession at clock reading t, up to its first await: the
\* time stamp, the opportunistic pass, then the stage
processBloodRequestSession(message, session, userId, t) ==
  stageSwitch(message,
              backfill([session EXCEPT !.lastUpdated = t], extractedInfoOf[message]),
              userId, t)

(***************************************************************************)
(* State                                                                   *)
(***************************************************************************)
VARIABLES
  userSessions,   \* the session table: userId -> session, NoSession when absent
  now,            \* the clock, in minutes since the start day began
  pending,        \* the handlers suspended at await BloodRequest.create, in call order
  bloodRequests,  \* the documents the persistence collaborator has stored
  reply,          \* the reply last returned to each requester
  afterCall,      \* messages handled since BloodRequest.create was first called
  probe           \* a message put to extractBloodType alone, and what it returned

vars == <<userSessions, now, pending, bloodRequests, reply, afterCall, probe>>

\* no message is put to extractBloodType alone
NoProbe == [message |-> <<>>, expected |-> Null, asked |-> FALSE, bloodType |-> Null]

Init ==
  /\ userSessions = [u \in Users |-> NoSession]
  /\ now = StartTime
  /\ pending = <<>>
  /\ bloodRequests = <<>>
  /\ reply = [u \in Users |-> "none"]
  /\ afterCall = 0
  /\ probe = NoProbe

called == pending # <<>> \/ bloodRequests # <<>> \/ afterCall > 0

\* the session branch of generateAIResponse: the outcome of the state machine
\* is written back, and a document handed to BloodRequest.create suspends the
\* handler
continueSession(userId, out) ==
  /\ out.doc # NoDoc => Len(pending) < MaxPending
  /\ userSessions' = [userSessions EXCEPT ![userId] = out.session]
  /\ pending' = IF out.doc # NoDoc
                THEN Append(pending, [userId |-> userId, doc |-> out.doc])
                ELSE pending
  /\ reply' = IF out.doc # NoDoc THEN reply ELSE [reply EXCEPT ![userId] = out.reply]

\* what generateAIResponse returns after it called the fallback responder: the
\* responder's answer, or the apology of the catch block when the call failed
fallbackReplies == {"fallback_answer", "sorry_try_later"}

\* a handler that tests the intent of the message before it looks for a session
generateAIResponseIntentFirst(userId, message) ==
  /\ called => afterCall < MaxAfterCall
  /\ afterCall' = IF called THEN afterCall + 1 ELSE afterCall
  /\ IF intentOf[message]
     THEN /\ userSessions' = [userSessions EXCEPT ![userId] = NewSession(now)]
          /\ reply' = [reply EXCEPT ![userId] = "ask_blood_type"]
          /\ UNCHANGED pending
     ELSE IF userSessions[userId] # NoSession /\ ~isExpired(userSessions[userId], now)
          THEN continueSession(userId,
                 processBloodRequestSession(message, userSessions[userId], userId, now))
          ELSE /\ userSessions' = [userSessions EXCEPT ![userId] = NoSession]
               /\ \E r \in {"fallback_answer", "sorry_try_later"} :
                    reply' = [reply EXCEPT ![userId] = r]
               /\ UNCHANGED pending
  /\ UNCHANGED <<now, bloodRequests, probe>>

\* One message handled by generateAIResponse, up to its first await or its
\* return.  The fallback responder changes no state of the engine, so its
\* call and its answer (or its failure) are part of the same step.
generateAIResponse(userId, message) ==
  /\ called => afterCall < MaxAfterCall
  /\ afterCall' = IF called THEN afterCall + 1 ELSE afterCall
  /\ IF userSessions[userId] # NoSession /\ ~isExpired(userSessions[userId], now)
     THEN continueSession(userId,
            processBloodRequestSession(message, userSessions[userId], userId, now))
     ELSE IF intentOf[message]
          THEN /\ userSessions' = [userSessions EXCEPT ![userId] = NewSession(now)]
               /\ reply' = [reply EXCEPT ![userId] = "ask_blood_type"]
               /\ UNCHANGED pending
          ELSE /\ userSessions' = [userSessions EXCEPT ![userId] = NoSession]
               /\ \E r \in {"fallback_answer", "sorry_try_later"} :
                    reply' = [reply EXCEPT ![userId] = r]
               /\ UNCHANGED pending
  /\ UNCHANGED <<now, bloodRequests, probe>>

RemoveAt(q, i) == SubSeq(q, 1, i - 1) \o SubSeq(q, i + 1, Len(q))

\* a resolution after which the handler empties the whole table
createResolvesClearsStore(i) ==
  /\ i \in 1..Len(pending)
  /\ bloodRequests' = Append(bloodRequests, pending[i].doc)
  /\ userSessions' = [u \in Users |-> NoSession]
  /\ reply' = [reply EXCEPT ![pending[i].userId] = "success"]
  /\ pending' = RemoveAt(pending, i)
  /\ UNCHANGED <<now, afterCall, probe>>

\* a resolution after which the handler leaves the session in the table
createResolvesKeepsSession(i) ==
  /\ i \in 1..Len(pending)
  /\ bloodRequests' = Append(bloodRequests, pending[i].doc)
  /\ reply' = [reply EXCEPT ![pending[i].userId] = "success"]
  /\ pending' = RemoveAt(pending, i)
  /\ UNCHANGED <<userSessions, now, afterCall, probe>>

\* a rejection after which the handler leaves the session in the table
createRejectsKeepsSession(i) ==
  /\ i \in 1..Len(pending)
  /\ reply' = [reply EXCEPT ![pending[i].userId] = "sorry_use_create_request"]
  /\ pending' = RemoveAt(pending, i)
  /\ UNCHANGED <<userSessions, now, bloodRequests, afterCall, probe>>

\* BloodRequest.create resolves for the i-th suspended handler: the document is
\* stored, the handler deletes userSessions[userId] and returns the success text
createResolves(i) ==
  /\ i \in 1..Len(pending)
  /\ bloodRequests' = Append(bloodRequests, pending[i].doc)
  /\ userSessions' = [userSessions EXCEPT ![pending[i].userId] = NoSession]
  /\ reply' = [reply EXCEPT ![pending[i].userId] = "success"]
  /\ pending' = RemoveAt(pending, i)
  /\ UNCHANGED <<now, afterCall, probe>>

\* BloodRequest.create rejects: the catch block deletes userSessions[userId] and
\* returns the apology
createRejects(i) ==
  /\ i \in 1..Len(pending)
  /\ userSessions' = [userSessions EXCEPT ![pending[i].userId] = NoSession]
  /\ reply' = [reply EXCEPT ![pending[i].userId] = "sorry_use_create_request"]
  /\ pending' = RemoveAt(pending, i)
  /\ UNCHANGED <<now, bloodRequests, afterCall, probe>>

\* time passes, and a sweep removes the sessions that have expired meanwhile
TickSweeps(d, limit) ==
  /\ now + d <= StartTime + limit
  /\ now' = now + d
  /\ userSessions' = [u \in Users |->
                        IF userSessions[u] # NoSession /\ isExpired(userSessions[u], now + d)
                        THEN NoSession ELSE userSessions[u]]
  /\ UNCHANGED <<pending, bloodRequests, reply, afterCall, probe>>

\* time passes, up to limit minutes after the start
TickWithin(d, limit) ==
  /\ now + d <= StartTime + limit
  /\ now' = now + d
  /\ UNCHANGED <<userSessions, pending, bloodRequests, reply, afterCall, probe>>

\* time passes
Tick(d) == TickWithin(d, MaxElapsed)

\* the steps by which the clock advances: up to the timeout, and just past it
TickSteps == {SessionTimeout, SessionTimeout + 1}

\* the requesters that send messages
Active == {"u1"}

\* the messages a requester may send in the current state
Offered(userId) ==
  IF userSessions[userId] = NoSession \/ isExpired(userSessions[userId], now)
  THEN Openers
  ELSE Answers(userSessions[userId].stage)

Next ==
  \/ \E u \in Active : \E m \in Offered(u) : generateAIResponse(u, m)
  \/ \E i \in 1..MaxPending : createResolves(i)
  \/ \E i \in 1..MaxPending : createRejects(i)
  \/ \E d \in TickSteps : Tick(d)

Spec == Init /\ [][Next]_vars

(***************************************************************************)
(* Two requesters in dialogue at once.  The first keeps to one answer per    *)
(* stage and goes through to the commit; the second stays in the first      *)
(* stages.  The clock runs for two timeouts.                                *)
(***************************************************************************)
\* how far the clock runs while two requesters are in dialogue
MaxElapsedTwo == 61

AnswersTwo(userId, stage) ==
  IF userId = "u1"
  THEN CASE stage = "initial" -> {MsgAPlus, MsgCreateBloodRequest}
         [] stage = "hospital" -> {MsgCityHospital}
         [] stage = "location" -> {MsgRoad}
         [] stage = "zone" -> {MsgDhanmondi}
         [] stage = "patientProblem" -> {MsgDengue}
         [] stage = "bagNeeded" -> {MsgThreeBags}
         [] stage = "date" -> {MsgToday}
         [] stage = "time" -> {MsgHalfPastTwo}
         [] stage = "hemoglobinPoint" -> {MsgSkip}
         [] stage = "additionalInfo" -> {MsgSkip}
         [] stage = "confirmation" -> {MsgYes, MsgNoWrong, MsgOk}
         [] OTHER -> {}
  ELSE CASE stage = "initial" -> {MsgAPlus, MsgOk}
         [] stage = "hospital" -> {MsgCityHospital}
         [] OTHER -> {}

OfferedTwo(userId) ==
  IF userSessions[userId] = NoSession \/ isExpired(userSessions[userId], now)
  THEN {MsgCreateBloodRequest, MsgBlood}
  ELSE AnswersTwo(userId, userSessions[userId].stage)

NextTwo ==
  \/ \E u \in Users : \E m \in OfferedTwo(u) : generateAIResponse(u, m)
  \/ \E i \in 1..MaxPending : createResolves(i)
  \/ \E i \in 1..MaxPending : createRejects(i)
  \/ \E d \in TickSteps : TickWithin(d, MaxElapsedTwo)

SpecTwo == Init /\ [][NextTwo]_vars

(***************************************************************************)
(* One requester who tries the limits of the date and hemoglobin stages    *)
(***************************************************************************)
OfferedStages(userId) ==
  IF userSessions[userId] = NoSession \/ isExpired(userSessions[userId], now)
  THEN {MsgCreateBloodRequest}
  ELSE AnswersStages(userSessions[userId].stage)

NextStages ==
  \/ \E u \in Active : \E m \in OfferedStages(u) : generateAIResponse(u, m)
  \/ \E i \in 1..MaxPending : createResolves(i)
  \/ \E i \in 1..MaxPending : createRejects(i)
  \/ \E d \in TickSteps : Tick(d)

SpecStages == Init /\ [][NextStages]_vars

(***************************************************************************)
(* One requester who opens a single dialogue, gives every stage an answer   *)
(* it accepts, never lets the session reach the timeout and replies         *)
(* affirmatively at confirmation, with a persistence collaborator that      *)
(* succeeds.                                                                *)
(***************************************************************************)
OfferedAccepted(userId) ==
  IF userSessions[userId] = NoSession
  THEN IF called THEN {} ELSE {MsgCreateBloodRequest}
  ELSE AnswersAccepted(userSessions[userId].stage)

answersAccepted == \E u \in Active : \E m \in OfferedAccepted(u) : generateAIResponse(u, m)

persistenceSucceeds == \E i \in 1..MaxPending : createResolves(i)

NextAccepted ==
  \/ answersAccepted
  \/ persistenceSucceeds
  \/ Tick(SessionTimeout - 1)

SpecAccepted == Init /\ [][NextAccepted]_vars

(***************************************************************************)
(* extractBloodType on its own: every canonical token and every verbose    *)
(* form, in three letter cases, alone and inside a sentence                *)
(***************************************************************************)
\* <<text, the token it stands for>>
BloodTypeForms ==
  {<<bloodTypes[k], bloodTypes[k]>> : k \in 1..Len(bloodTypes)}
    \cup {<<bloodTypeVariations[k][1], bloodTypeVariations[k][3]>> :
            k \in 1..Len(bloodTypeVariations)}
    \cup {<<bloodTypeVariations[k][2], bloodTypeVariations[k][3]>> :
            k \in 1..Len(bloodTypeVariations)}

ProbePrefixes == {<<>>, <<"w", "e", " ", "n", "e", "e", "d", " ">>}

ProbeSuffixes == {<<>>, <<" ", "f", "o", "r", " ", "m", "y", " ", "f", "a", "t", "h", "e", "r">>}

LetterCases == {"asWritten", "lower", "upper"}

InCase(s, c) == IF c = "lower" THEN toLowerCase(s) ELSE IF c = "upper" THEN toUpperCase(s) ELSE s

Probes ==
  {[message |-> pre \o InCase(form[1], c) \o suf, expected |-> form[2],
    asked |-> FALSE, bloodType |-> Null] :
     pre \in ProbePrefixes, suf \in ProbeSuffixes, form \in BloodTypeForms, c \in LetterCases}

InitExtract ==
  /\ userSessions = [u \in Users |-> NoSession]
  /\ now = StartTime
  /\ pending = <<>>
  /\ bloodRequests = <<>>
  /\ reply = [u \in Users |-> "none"]
  /\ afterCall = 0
  /\ probe \in Probes

\* extractBloodType(message) is called
Extract ==
  /\ ~probe.asked
  /\ probe' = [probe EXCEPT !.asked = TRUE, !.bloodType = extractBloodType(probe.message)]
  /\ UNCHANGED <<userSessions, now, pending, bloodRequests, reply, afterCall>>

NextExtract == Extract

SpecExtract == InitExtract /\ [][NextExtract]_vars

(***************************************************************************)
(* Vocabulary of the properties                                            *)
(***************************************************************************)
RequiredFields ==
  {"bloodType", "hospital", "location", "zone", "patientProblem", "bagNeeded", "date", "time"}

CollectedFields == RequiredFields \cup {"hemoglobinPoint", "additionalInfo"}

\* the requester has a session that has not expired
Live(u) == userSessions[u] # NoSession /\ ~isExpired(userSessions[u], now)

AtConfirmation(u) == userSessions[u] # NoSession /\ userSessions[u].stage = "confirmation"

RequiredSet(session) == \A f \in RequiredFields : session[f] # Null /\ session[f] # <<>>

ContainsAny(m, tokens) == \E tok \in tokens : includes(lowerOf[m], tok)

AffirmativeTokens == {<<"y", "e", "s">>, <<"c", "o", "r", "r", "e", "c", "t">>, <<"r", "i", "g", "h", "t">>}

\* a handler of the requester is suspended at BloodRequest.create
Suspended(u) == \E i \in 1..Len(pending) : pending[i].userId = u

\* the six trigger phrases
TriggerPhrases == {bloodRequestKeywords[k] : k \in 1..Len(bloodRequestKeywords)}

\* position of a stage in the order of the dialogue, 0 for a stage outside it
StageIndex(stage) ==
  IF \E k \in 1..Len(StageOrder) : StageOrder[k] = stage
  THEN CHOOSE k \in 1..Len(StageOrder) : StageOrder[k] = stage
  ELSE 0

(***************************************************************************)
(* Properties                                                              *)
(***************************************************************************)
\* C1: when a live session is at confirmation with its eight required fields
\* set and the message contains "yes", "correct" or "right" in any letter case,
\* BloodRequest.create is called once, for that requester, with the session's
\* ten field values (the date replaced by today's when it left the window);
\* when the call resolves the document is stored, the requester's session is
\* removed and the success message is returned.
C1_AffirmativeCommits ==
  [][\A u \in Active :
       /\ \A m \in Offered(u) :
            ( /\ Live(u) /\ AtConfirmation(u) /\ RequiredSet(userSessions[u])
              /\ ContainsAny(m, AffirmativeTokens)
              /\ generateAIResponse(u, m) )
            => /\ Len(pending') = Len(pending) + 1
               /\ SubSeq(pending', 1, Len(pending)) = pending
               /\ pending'[Len(pending')].userId = u
               /\ pending'[Len(pending')].doc.requester = u
               /\ \A f \in CollectedFields \ {"date"} :
                    pending'[Len(pending')].doc[f] = userSessions[u][f]
               /\ pending'[Len(pending')].doc.date =
                    IF validateDate(userSessions[u].date, DayOf(now))
                    THEN userSessions[u].date ELSE formatDate(DayOf(now))
               /\ bloodRequests' = bloodRequests
       /\ \A i \in 1..Len(pending) :
            (pending[i].userId = u /\ createResolves(i))
            => /\ bloodRequests' = Append(bloodRequests, pending[i].doc)
               /\ Len(pending') = Len(pending) - 1
               /\ userSessions'[u] = NoSession
               /\ reply'[u] = "success"
    ]_vars

\* a commit has succeeded: a document is stored, the success message was the
\* last reply and the requester has no session
C1_Committed ==
  /\ bloodRequests # <<>>
  /\ bloodRequests[Len(bloodRequests)].requester = "u1"
  /\ reply["u1"] = "success"
  /\ userSessions["u1"] = NoSession

\* C2: no message of a requester is handled against a session still at
\* confirmation while a handler of the same requester is suspended at the
\* persistence call it made from that session.
C2_Serialized ==
  [][\A u \in Active : \A m \in Offered(u) :
       generateAIResponse(u, m) => ~(Suspended(u) /\ AtConfirmation(u))
    ]_vars

\* C3: a session at confirmation has every required field set to a non-empty
\* value, a bag count in 1..10 and a time in an accepted format.
C3_ConfirmationComplete ==
  \A u \in Active :
    AtConfirmation(u)
    => /\ RequiredSet(userSessions[u])
       /\ validateBloodBags(userSessions[u].bagNeeded)
       /\ validateTime(userSessions[u].time)

C5_FailureDiscards ==
  [][\A u \in Active :
       /\ \A i \in 1..Len(pending) :
            (pending[i].userId = u /\ createRejects(i))
            => /\ bloodRequests' = bloodRequests
               /\ pending' = RemoveAt(pending, i)
               /\ userSessions'[u] = NoSession
               /\ reply'[u] = "sorry_use_create_request"
       /\ \A m \in Offered(u) :
            (reply[u] = "sorry_use_create_request" /\ generateAIResponse(u, m))
            => /\ pending' = pending
               /\ IF ContainsAny(m, TriggerPhrases)
                  THEN userSessions'[u] = NewSession(now) /\ reply'[u] = "ask_blood_type"
                  ELSE userSessions'[u] = NoSession
                         /\ reply'[u] \in {"fallback_answer", "sorry_try_later"}
    ]_vars

\* a commit has failed: nothing is stored, nothing is pending, the apology was
\* the last reply and the requester has no session
C5_Failed ==
  /\ reply["u1"] = "sorry_use_create_request"
  /\ userSessions["u1"] = NoSession
  /\ bloodRequests = <<>>
  /\ pending = <<>>

C7_TriggerCreates ==
  [][\A u \in Active : \A m \in Offered(u) :
       (~Live(u) /\ generateAIResponse(u, m))
       => IF ContainsAny(m, TriggerPhrases)
          THEN /\ userSessions'[u] # NoSession
               /\ userSessions'[u].stage = "initial"
               /\ userSessions'[u].lastUpdated = now
               /\ \A f \in CollectedFields : userSessions'[u][f] = Null
               /\ reply'[u] = "ask_blood_type"
          ELSE userSessions'[u] = NoSession
    ]_vars

\* a session has just been created by a trigger phrase
C7_Created ==
  /\ reply["u1"] = "ask_blood_type"
  /\ userSessions["u1"] # NoSession
  /\ userSessions["u1"].stage = "initial"
  /\ userSessions["u1"].lastUpdated = now

\* C8: a message that finds a session last updated more than 30 minutes ago
\* is handled as with no session (a new session at initial on a trigger
\* phrase, no session and the fallback otherwise); a session aged 30 minutes
\* or less is handled by the state machine at its stage.
C8_ExpiryIsStrict ==
  [][\A u \in Active : \A m \in Offered(u) :
       (userSessions[u] # NoSession /\ generateAIResponse(u, m))
       => IF now - userSessions[u].lastUpdated > 30
          THEN IF ContainsAny(m, TriggerPhrases)
               THEN userSessions'[u] = NewSession(now) /\ reply'[u] = "ask_blood_type"
               ELSE userSessions'[u] = NoSession
                      /\ reply'[u] \in {"fallback_answer", "sorry_try_later"}
          ELSE /\ userSessions'[u] # NoSession
               /\ userSessions'[u].lastUpdated = now
               /\ userSessions'[u] =
                    processBloodRequestSession(m, userSessions[u], u, now).session
    ]_vars

\* a session past the first question is in the store, aged exactly 30 minutes
C8_AgedThirty ==
  /\ userSessions["u1"] # NoSession
  /\ userSessions["u1"].stage = "zone"
  /\ now - userSessions["u1"].lastUpdated = 30

\* C9: extraction on a message containing a canonical token or a verbose form,
\* in any letter case and any surrounding text, returns the token it stands for.
C9_ExtractionCanonical ==
  probe.asked => probe.bloodType = probe.expected

\* C10: a message changes the stage of a live session only to the next stage
\* of the dialogue, or from confirmation to initial on a negative reply that
\* holds no affirmative token.
C10_StageOrder ==
  [][\A u \in Active : \A m \in Offered(u) :
       ( /\ Live(u) /\ generateAIResponse(u, m)
         /\ userSessions'[u] # NoSession
         /\ userSessions'[u].stage # userSessions[u].stage )
       => \/ /\ StageIndex(userSessions[u].stage) > 0
             /\ StageIndex(userSessions'[u].stage) = StageIndex(userSessions[u].stage) + 1
          \/ /\ userSessions[u].stage = "confirmation"
             /\ userSessions'[u].stage = "initial"
             /\ ContainsAny(m, {<<"n", "o">>, <<"w", "r", "o", "n", "g">>, <<"i", "n", "c", "o", "r", "r", "e", "c", "t">>})
             /\ ~ContainsAny(m, AffirmativeTokens)
    ]_vars

\* the requester's own handler returns from BloodRequest.create
OwnSettlement(u) ==
  \E i \in 1..Len(pending) : pending[i].userId = u /\ (createResolves(i) \/ createRejects(i))

\* C11: the session of a requester changes only by a message of that requester
\* or by the settlement of a persistence call made for that requester, and it
\* leaves the store only by such a settlement or by a message of that
\* requester that finds it older than 30 minutes; the passing of time and
\* the messages of another requester leave it in the store.
C11_RemovalEvents ==
  [][\A u \in Users :
       /\ (userSessions[u] # NoSession /\ userSessions'[u] # userSessions[u])
          => \/ OwnSettlement(u)
             \/ \E m \in OfferedTwo(u) : generateAIResponse(u, m)
       /\ (userSessions[u] # NoSession /\ userSessions'[u] = NoSession)
          => \/ OwnSettlement(u)
             \/ /\ now - userSessions[u].lastUpdated > 30
                /\ \E m \in OfferedTwo(u) : generateAIResponse(u, m)
    ]_vars

\* the first requester's session has expired and is still in the store after
\* the second requester has been served
C11_ExpiredStillStored ==
  /\ userSessions["u1"] # NoSession
  /\ now - userSessions["u1"].lastUpdated > 30
  /\ userSessions["u2"] # NoSession
  /\ userSessions["u2"].lastUpdated = now

NegativeTokens == {<<"n", "o">>, <<"w", "r", "o", "n", "g">>, <<"i", "n", "c", "o", "r", "r", "e", "c", "t">>}

C13_FallbackOnlyWithoutSession ==
  [][\A u \in Active : \A m \in Offered(u) :
       generateAIResponse(u, m)
       => /\ (reply'[u] \in fallbackReplies)
             => ~Live(u) /\ ~ContainsAny(m, TriggerPhrases)
          /\ (Live(u) \/ ContainsAny(m, TriggerPhrases))
             => (reply'[u] \notin fallbackReplies /\ userSessions'[u] # NoSession)
    ]_vars

\* the fallback responder has answered a requester whose session had been
\* committed
C13_FallbackAnswered ==
  /\ reply["u1"] = "fallback_answer"
  /\ userSessions["u1"] = NoSession
  /\ bloodRequests # <<>>

BackfillFields == {"bloodType", "hospital", "location", "zone", "patientProblem", "bagNeeded"}

\* C14: on every message a live session can receive, the backfill pass leaves
\* the stage, date, time, hemoglobinPoint and additionalInfo as they are, and
\* leaves every field of bloodType, hospital, location, zone, patientProblem
\* and bagNeeded that the session already holds as it is.
C14_BackfillFrame ==
  \A u \in Active :
    Live(u)
    => \A m \in Offered(u) :
         /\ backfill(userSessions[u], extractedInfoOf[m]).stage = userSessions[u].stage
         /\ \A f \in CollectedFields \ BackfillFields :
              backfill(userSessions[u], extractedInfoOf[m])[f] = userSessions[u][f]
         /\ \A f \in BackfillFields :
              userSessions[u][f] # Null
              => backfill(userSessions[u], extractedInfoOf[m])[f] = userSessions[u][f]

\* C15: at confirmation a message that holds neither an affirmative nor a
\* negative token returns the yes/no re-prompt, calls nothing, and leaves the
\* stage and the ten fields as they were.
C15_UnclearReplyKeepsSession ==
  [][\A u \in Active : \A m \in Offered(u) :
       ( /\ Live(u) /\ AtConfirmation(u)
         /\ ~ContainsAny(m, AffirmativeTokens)
         /\ ~ContainsAny(m, NegativeTokens)
         /\ generateAIResponse(u, m) )
       => /\ reply'[u] = "confirm_yes_or_no"
          /\ pending' = pending
          /\ bloodRequests' = bloodRequests
          /\ userSessions'[u] # NoSession
          /\ userSessions'[u].stage = "confirmation"
          /\ \A f \in CollectedFields : userSessions'[u][f] = userSessions[u][f]
    ]_vars

\* the stages that collect a field
CollectingStages == {StageOrder[k] : k \in 1..(Len(StageOrder) - 1)}

\* the value a field has after the backfill pass on message m
Backfilled(session, m, f) ==
  IF f \in BackfillFields /\ session[f] \in {Null, <<>>}
       /\ extractedInfoOf[m][f] \notin {Null, <<>>}
  THEN extractedInfoOf[m][f]
  ELSE session[f]

\* C16: a message that a collecting stage turns down gets a re-prompt and
\* leaves the stage as it is; every field keeps its value, except that an
\* unset field of the backfill pass is set when the message supplies it.  After
\* any message the session is absent, newly created, at the same or the next
\* stage, reset to initial with no field, or, when an affirmative reply at
\* confirmation finds a required field empty, back at initial with its fields.
C16_RejectionKeepsStage ==
  [][\A u \in Active : \A m \in Offered(u) :
       generateAIResponse(u, m)
       => /\ ( /\ Live(u) /\ userSessions[u].stage \in CollectingStages
               /\ userSessions'[u].stage = userSessions[u].stage )
             => /\ reply'[u] \in rePrompts
                /\ \A f \in CollectedFields :
                     userSessions'[u][f] = Backfilled(userSessions[u], m, f)
          /\ \/ userSessions'[u] = NoSession
             \/ userSessions'[u] = NewSession(now)
             \/ /\ Live(u)
                /\ \/ userSessions'[u].stage = userSessions[u].stage
                   \/ StageIndex(userSessions'[u].stage)
                        = StageIndex(userSessions[u].stage) + 1
                   \/ /\ userSessions[u].stage = "confirmation"
                      /\ userSessions'[u].stage = "initial"
                      /\ \/ \A f \in CollectedFields : userSessions'[u][f] = Null
                         \/ /\ ContainsAny(m, AffirmativeTokens)
                            /\ \E f \in RequiredFields : userSessions'[u][f] \in {Null, <<>>}
                            /\ \A f \in CollectedFields :
                                 userSessions'[u][f] = Backfilled(userSessions[u], m, f)
    ]_vars

\* the initial stage has turned down a message that named a hospital, and the
\* hospital is in the session
C16_RejectedButBackfilled ==
  /\ reply["u1"] = "need_blood_type"
  /\ userSessions["u1"] # NoSession
  /\ userSessions["u1"].stage = "initial"
  /\ userSessions["u1"].hospital = <<"C", "i", "t", "y", " ", "H", "o", "s", "p", "i", "t", "a", "l">>

\* C16 as stated: a message that a collecting stage turns down gets a re-prompt
\* and leaves the stage and every field as they were; after any message the
\* session is unchanged or advanced, reset to initial with no field, or absent.
C16_RejectionLeavesSession ==
  [][\A u \in Active : \A m \in Offered(u) :
       generateAIResponse(u, m)
       => /\ ( /\ Live(u) /\ userSessions[u].stage \in CollectingStages
               /\ userSessions'[u].stage = userSessions[u].stage )
             => /\ reply'[u] \in rePrompts
                /\ \A f \in CollectedFields : userSessions'[u][f] = userSessions[u][f]
          /\ \/ userSessions'[u] = NoSession
             \/ /\ userSessions'[u].stage = "initial"
                /\ \A f \in CollectedFields : userSessions'[u][f] = Null
             \/ /\ Live(u)
                /\ \/ userSessions'[u].stage = userSessions[u].stage
                   \/ StageIndex(userSessions'[u].stage)
                        = StageIndex(userSessions[u].stage) + 1
    ]_vars

\* C17: when a message has been answered without a change of stage, the same
\* message sent again gets the same reply and changes neither the stage nor a
\* field, and every field the session held before the first delivery still has
\* its value after the second.
C17_ResendIdempotent ==
  [][\A u \in Active : \A m \in Offered(u) :
       ( /\ Live(u) /\ generateAIResponse(u, m)
         /\ pending' = pending
         /\ userSessions'[u] # NoSession
         /\ userSessions'[u].stage = userSessions[u].stage )
       => /\ processBloodRequestSession(m, userSessions'[u], u, now).reply = reply'[u]
          /\ processBloodRequestSession(m, userSessions'[u], u, now).doc = NoDoc
          /\ processBloodRequestSession(m, userSessions'[u], u, now).session = userSessions'[u]
          /\ \A f \in CollectedFields :
               userSessions[u][f] # Null
               => processBloodRequestSession(m, userSessions'[u], u, now).session[f]
                    = userSessions[u][f]
    ]_vars

\* C18: every message handled by a session aged 30 minutes or less leaves the
\* session in the store with lastUpdated set to the time of the message,
\* whatever the stage and whether or not the stage advances; so a session
\* that gets a message every 30 minutes outlives the timeout.
C18_EveryMessageRefreshes ==
  [][\A u \in Users : \A m \in OfferedTwo(u) :
       ( /\ userSessions[u] # NoSession
         /\ now - userSessions[u].lastUpdated <= 30
         /\ generateAIResponse(u, m) )
       => /\ userSessions'[u] # NoSession
          /\ userSessions'[u].lastUpdated = now
    ]_vars

\* a session that took its date on the start day is live an hour later
C18_LiveAfterAnHour ==
  /\ now = StartTime + 60
  /\ Live("u1")
  /\ userSessions["u1"].date = formatDate(StartDay)
  /\ userSessions["u1"].lastUpdated = now

\* C19: the store holds one entry per requester, and a message of one
\* requester, or the settlement of a persistence call made for that requester,
\* leaves the session of every other requester as it is: present or absent,
\* with its stage, its fields and its lastUpdated.
C19_RequestersIsolated ==
  [][/\ DOMAIN userSessions = Users
     /\ \A a \in Users : \A b \in Users \ {a} :
          (OwnSettlement(a) \/ \E m \in OfferedTwo(a) : generateAIResponse(a, m))
          => userSessions'[b] = userSessions[b]
    ]_vars

\* the first requester's session was committed and deleted while the second
\* requester's session stands at the hospital stage
C19_OneCommittedOneWaiting ==
  /\ userSessions["u1"] = NoSession
  /\ \E k \in 1..Len(bloodRequests) : bloodRequests[k].requester = "u1"
  /\ userSessions["u2"] # NoSession
  /\ userSessions["u2"].stage = "hospital"

\* the position in the dialogue of the stage that asks for a field
FieldStage(f) ==
  CASE f = "bloodType" -> StageIndex("initial")
    [] f = "hospital" -> StageIndex("hospital")
    [] f = "location" -> StageIndex("location")
    [] f = "zone" -> StageIndex("zone")
    [] f = "patientProblem" -> StageIndex("patientProblem")
    [] f = "bagNeeded" -> StageIndex("bagNeeded")

\* the fields that the session did not hold and holds after the message
Supplied(before, after) ==
  {f \in BackfillFields : before[f] = Null /\ after[f] \notin {Null, <<>>}}

\* C20: after a message that the stage accepts and that supplies values for
\* several fields the session did not hold, the stage lies past the stage of
\* every field the message supplied.
C20_VerboseShortCircuits ==
  [][\A u \in Active : \A m \in Offered(u) :
       ( /\ Live(u) /\ generateAIResponse(u, m)
         /\ userSessions'[u] # NoSession
         /\ userSessions'[u].stage # userSessions[u].stage
         /\ Cardinality(Supplied(userSessions[u], userSessions'[u])) >= 2 )
       => \A f \in Supplied(userSessions[u], userSessions'[u]) :
            StageIndex(userSessions'[u].stage) > FieldStage(f)
    ]_vars

\* C21: at stage confirmation every message that contains "no", "wrong" or
\* "incorrect" is a negative reply: BloodRequest.create is not called, the
\* session stays with stage initial and its ten fields are unset.
C21_NegativeTokenResets ==
  [][\A u \in Active : \A m \in Offered(u) :
       ( /\ Live(u) /\ AtConfirmation(u) /\ RequiredSet(userSessions[u])
         /\ ContainsAny(m, NegativeTokens)
         /\ generateAIResponse(u, m) )
       => /\ pending' = pending
          /\ userSessions'[u] # NoSession
          /\ userSessions'[u].stage = "initial"
          /\ \A f \in CollectedFields : userSessions'[u][f] = Null
    ]_vars

\* the value of the first run of digits of a message, NaN when it has no digit
FirstInteger(m) ==
  LET digits == {i \in 1..Len(m) : m[i] \in DigitChars}
      first == CHOOSE i \in digits : \A j \in digits : i <= j
  IN  IF digits = {} THEN NaN ELSE DigitsValue(DigitPrefix(SubSeq(m, first, Len(m))))

\* C22: at stage bagNeeded a first integer within 1..10 is stored, the stage
\* becomes date and the date prompt is returned; a first integer outside 1..10
\* leaves the stage with the "seems unusual" re-prompt and a message without a
\* digit leaves it with the "provide a number" re-prompt, and in both cases
\* bagNeeded holds no value outside 1..10 afterwards.
C22_BagStage ==
  [][\A u \in Active : \A m \in Offered(u) :
       ( /\ Live(u) /\ userSessions[u].stage = "bagNeeded"
         /\ generateAIResponse(u, m) )
       => LET n == FirstInteger(m)
              after == userSessions'[u]
          IN  IF n # NaN /\ n >= 1 /\ n <= 10
              THEN /\ after.stage = "date"
                   /\ after.bagNeeded # Null /\ parseInt(after.bagNeeded) = n
                   /\ reply'[u] = "ask_date"
              ELSE /\ after.stage = "bagNeeded"
                   /\ reply'[u] = IF n # NaN THEN "bags_unusual" ELSE "bags_need_number"
                   /\ after.bagNeeded = Null \/ validateBloodBags(after.bagNeeded)
    ]_vars

\* a date string DD/MM/YYYY names a day of the calendar
Denotes(dateStr) ==
  LET parts == split(dateStr, "/")
      day == parseInt(parts[1])
      month == parseInt(parts[2])
      year == parseInt(parts[3])
  IN  /\ Len(parts) = 3
      /\ month >= 1 /\ month <= 12
      /\ day >= 1 /\ day <= MonthLengths(year)[month]

\* the day count of a date string that names a day of the calendar
DayNumber(dateStr) ==
  LET parts == split(dateStr, "/")
  IN  DateOf(parseInt(parts[3]), parseInt(parts[2]) - 1, parseInt(parts[1]))

\* C23: at stage date the date extracted from the message is stored and the
\* stage becomes time exactly when it names a calendar day from today to
\* today+30; otherwise the stage stays date and the date is not stored, with
\* the 30-day-window re-prompt for an extracted date and the format re-prompt
\* when none is recognised; "tomorrow" is stored as tomorrow's DD/MM/YYYY.
C23_DateStage ==
  [][\A u \in Active : \A m \in OfferedStages(u) :
       ( /\ Live(u) /\ userSessions[u].stage = "date"
         /\ generateAIResponse(u, m) )
       => LET today == DayOf(now)
              extracted == dateValueOf[m][today]
              after == userSessions'[u]
          IN  IF /\ extracted # Null /\ Denotes(extracted)
                 /\ today <= DayNumber(extracted) /\ DayNumber(extracted) <= today + 30
              THEN /\ after.stage = "time"
                   /\ after.date = extracted
                   /\ reply'[u] = "ask_time"
                   /\ m = MsgTomorrow => after.date = formatDate(today + 1)
              ELSE /\ after.stage = "date"
                   /\ after.date = userSessions[u].date
                   /\ reply'[u] = IF extracted # Null THEN "date_out_of_window"
                                  ELSE "date_not_understood"
    ]_vars

\* the first number of a message as <<tenths, more>>, NaN when it has no digit
FirstNumber(m) ==
  LET digits == {i \in 1..Len(m) : m[i] \in DigitChars}
      first == CHOOSE i \in digits : \A j \in digits : i <= j
  IN  IF digits = {} THEN <<NaN, FALSE>> ELSE parseFloatTenths(SubSeq(m, first, Len(m)))

\* a number <<tenths, more>> lies within 7.0..20.0
WithinHemoglobinRange(h) == h[1] # NaN /\ h[1] >= 70 /\ (h[1] < 200 \/ (h[1] = 200 /\ ~h[2]))

\* C24: at stage hemoglobinPoint the message "skip" or "unknown", in any letter
\* case, stores "Not specified" and moves to additionalInfo; otherwise a first
\* number within 7.0..20.0 is stored and the stage moves to additionalInfo;
\* otherwise the stage stays, hemoglobinPoint is left as it was and a
\* re-prompt is returned.
C24_HemoglobinStage ==
  [][\A u \in Active : \A m \in OfferedStages(u) :
       ( /\ Live(u) /\ userSessions[u].stage = "hemoglobinPoint"
         /\ generateAIResponse(u, m) )
       => LET after == userSessions'[u]
          IN  IF toLowerCase(m) \in {<<"s", "k", "i", "p">>, <<"u", "n", "k", "n", "o", "w", "n">>}
              THEN after.stage = "additionalInfo" /\ after.hemoglobinPoint = NotSpecified
              ELSE IF WithinHemoglobinRange(FirstNumber(m))
                   THEN /\ after.stage = "additionalInfo"
                        /\ after.hemoglobinPoint # Null
                        /\ parseFloatTenths(after.hemoglobinPoint) = FirstNumber(m)
                   ELSE /\ after.stage = "hemoglobinPoint"
                        /\ after.hemoglobinPoint = userSessions[u].hemoglobinPoint
                        /\ reply'[u] \in rePrompts
    ]_vars

\* the upper limit itself was given and stored, and the dialogue went on
C24_TwentyStored ==
  /\ userSessions["u1"] # NoSession
  /\ userSessions["u1"].stage = "additionalInfo"
  /\ userSessions["u1"].hemoglobinPoint = MsgTwenty

\* C25: a pass through confirmation calls BloodRequest.create at most once: no
\* message makes a call with the confirmed data while a call of the same
\* requester with that data is still pending.
C25_OneCallPerConfirmation ==
  [][\A u \in Active : \A m \in Offered(u) :
       ( /\ Live(u) /\ AtConfirmation(u)
         /\ generateAIResponse(u, m)
         /\ Len(pending') = Len(pending) + 1 )
       => \A i \in 1..Len(pending) :
            ~(pending[i].userId = u /\ pending[i].doc = pending'[Len(pending')].doc)
    ]_vars

\* the requester's session was created by their last message and has not been
\* touched since: the creation prompt is the last reply
JustCreated(u) ==
  /\ userSessions[u] # NoSession
  /\ userSessions[u].stage = "initial"
  /\ reply[u] = "ask_blood_type"

\* C26: the deletion that ends a commit, after the persistence call resolved or
\* failed, never removes a session that the requester created with a new
\* trigger phrase after the call was made.
C26_LateCommitSparesNewSession ==
  [][\A i \in 1..Len(pending) :
       (createResolves(i) \/ createRejects(i))
       => ~(JustCreated(pending[i].userId) /\ userSessions'[pending[i].userId] = NoSession)
    ]_vars

\* what the record shows for a field of the session when no repair touches it:
\* an absent hemoglobin level reads "Not specified", absent additional
\* information reads as the empty text
Carried(session, f) ==
  IF f = "hemoglobinPoint" /\ Falsy(session[f]) THEN NotSpecified
  ELSE IF f = "additionalInfo" /\ Falsy(session[f]) THEN <<>>
  ELSE session[f]

\* the values the repairs of the commit put in place of an invalid one
RepairDefault(f, today) ==
  CASE f = "bagNeeded" -> <<"1">>
    [] f = "hemoglobinPoint" -> NotSpecified
    [] f = "date" -> formatDate(today)
    [] OTHER -> Null

\* C27: a message handled at confirmation that leaves the session there, ready
\* to be committed, changes none of the ten fields the summary showed, and the
\* document of an
\* affirmative reply carries the value the session held before the reply for
\* each field, or for bagNeeded, hemoglobinPoint and date the default of the
\* repair.
C27_RecordIsSummary ==
  [][\A u \in Active : \A m \in Offered(u) :
       ( /\ Live(u) /\ AtConfirmation(u)
         /\ generateAIResponse(u, m) )
       => /\ ( /\ pending' = pending /\ userSessions'[u].stage = "confirmation"
               /\ ~missingRequired(userSessions'[u]) )
               => \A f \in CollectedFields : userSessions'[u][f] = userSessions[u][f]
          /\ Len(pending') = Len(pending) + 1
               => LET doc == pending'[Len(pending')].doc
                  IN  \A f \in CollectedFields :
                        \/ doc[f] = Carried(userSessions[u], f)
                        \/ doc[f] = RepairDefault(f, DayOf(now))
    ]_vars

C29_AcceptedAnswersCommit ==
  [][\A u \in Active : \A m \in OfferedAccepted(u) :
       ( /\ Live(u) /\ generateAIResponse(u, m) )
       => IF AtConfirmation(u)
          THEN Len(pending') = Len(pending) + 1
          ELSE /\ userSessions'[u] # NoSession
               /\ StageIndex(userSessions'[u].stage) = StageIndex(userSessions[u].stage) + 1
    ]_vars
\* C30: no session is ever at stage bloodType.
C30_BloodTypeStageUnused ==
  \A u \in Users : userSessions[u].stage # "bloodType"

\* a session has been reset at confirmation: it is at initial, with the
\* blood-type question as the last reply
C30_ResetToInitial ==
  /\ userSessions["u1"] # NoSession
  /\ userSessions["u1"].stage = "initial"
  /\ reply["u1"] = "start_over"

=============================================================================
